---- MODULE Spec2Model ----
(***************************************************************************)
(* Model of the bank assistant's money-movement engine                      *)
(* (app/services/mcp_services/personal_services.py), the MCP tool handlers *)
(* in front of it (app/mcp/mcp_server.py) and the dispatch step of the     *)
(* response assembler (app/services/llm_services/llm_client.py).           *)
(*                                                                         *)
(* Money is counted in cents (Numeric(18, 2)); an amount argument is       *)
(* counted in thousandths so that the rounding to cents is a real step.    *)
(* Text is a sequence of one-character strings.                            *)
(***************************************************************************)
EXTENDS Integers, Sequences, FiniteSets, TLC

\* ------------------------------------------------------------------ bounds
\* Number of tool calls dispatched in one behaviour of concurrent requests.
MaxCalls == 2

\* Number of tool calls dispatched in one behaviour of sequential requests.
MaxSeqCalls == 1

\* Number of call markers dispatched in one behaviour of respond.
MaxRespondCalls == 1

\* Number of applications of filter_tool_args in one behaviour.
MaxFilterCalls == 1

\* Number of applications of _parse_func_call in one behaviour.
MaxParseCalls == 1

\* Responses of the assistant that respond assembles.
MaxReplies == 1

\* Number of tool calls dispatched in one behaviour of calls with language tags.
MaxLangCalls == 2

\* Number of tool calls dispatched in one behaviour of calls with their sessions.
MaxSessionCalls == 1

\* Number of transfers dispatched, and of read tools called, in one behaviour
\* of transfers and read tools.
MaxReadTransfers == 1
MaxReads == 1

\* Number of responses whose markers are extracted and parsed.
MaxExtractCalls == 1

\* Number of transfers whose description is written and read back.
MaxDescriptions == 1

\* ------------------------------------------------------------------- text
Space == " "

\* str.lower() / SQL lower() on the letters the model uses.
LowerCh(c) ==
  CASE c = "A" -> "a" [] c = "B" -> "b" [] c = "C" -> "c" [] c = "D" -> "d"
    [] c = "E" -> "e" [] c = "F" -> "f" [] c = "G" -> "g" [] c = "H" -> "h"
    [] c = "I" -> "i" [] c = "J" -> "j" [] c = "K" -> "k" [] c = "L" -> "l"
    [] c = "M" -> "m" [] c = "N" -> "n" [] c = "O" -> "o" [] c = "P" -> "p"
    [] c = "Q" -> "q" [] c = "R" -> "r" [] c = "S" -> "s" [] c = "T" -> "t"
    [] c = "U" -> "u" [] c = "V" -> "v" [] c = "W" -> "w" [] c = "X" -> "x"
    [] c = "Y" -> "y" [] c = "Z" -> "z" [] OTHER -> c

Lower(s) == [i \in 1..Len(s) |-> LowerCh(s[i])]

RECURSIVE LStrip(_)
LStrip(s) == IF s # <<>> /\ Head(s) = Space THEN LStrip(Tail(s)) ELSE s

RECURSIVE RStrip(_)
RStrip(s) ==
  IF s # <<>> /\ s[Len(s)] = Space THEN RStrip(SubSeq(s, 1, Len(s) - 1)) ELSE s

\* str.strip() / SQL trim()
Strip(s) == RStrip(LStrip(s))

\* str.split(): the maximal runs of non-space characters, in order.
RECURSIVE SplitWs(_, _)
SplitWs(s, cur) ==
  IF s = <<>> THEN (IF cur = <<>> THEN <<>> ELSE <<cur>>)
  ELSE IF Head(s) = Space
       THEN (IF cur = <<>> THEN <<>> ELSE <<cur>>) \o SplitWs(Tail(s), <<>>)
       ELSE SplitWs(Tail(s), Append(cur, Head(s)))

\* " ".join(parts)
RECURSIVE JoinSp(_)
JoinSp(parts) ==
  IF parts = <<>> THEN <<>>
  ELSE IF Len(parts) = 1 THEN parts[1]
  ELSE parts[1] \o <<Space>> \o JoinSp(Tail(parts))

_normalize_name(name) == JoinSp(SplitWs(Lower(Strip(name)), <<>>))

\* ------------------------------------------------------------ ledger data
NoCustomer == 0
NoAccount == 0
NoProc == "none"

CustomerIds == {1, 2, 3, 4}

\* Customer rows (first_name, last_name).
Customer(c) ==
  CASE c = 1 -> [first_name |-> <<"A", "l">>, last_name |-> <<"U", "u">>]
    [] c = 2 -> [first_name |-> <<"B", "o">>, last_name |-> <<"L", "i">>]
    [] c = 3 -> [first_name |-> <<"C", "y">>, last_name |-> <<"M", "o">>]
    [] c = 4 -> [first_name |-> <<"D", "i">>, last_name |-> <<"N", "e">>]

_full_name(c) ==
  JoinSp(SelectSeq(<<Customer(c).first_name, Customer(c).last_name>>,
                   LAMBDA part : part # <<>>))

AccountIds == {1, 2, 3, 4, 5}

\* Account rows: owner, currency and status, which no operation changes.
Account(a) ==
  CASE a = 1 -> [customer_id |-> 1, currency |-> "KGS", status |-> "active"]
    [] a = 2 -> [customer_id |-> 1, currency |-> "USD", status |-> "active"]
    [] a = 3 -> [customer_id |-> 2, currency |-> "KGS", status |-> "active"]
    [] a = 4 -> [customer_id |-> 3, currency |-> "USD", status |-> "active"]
    [] a = 5 -> [customer_id |-> 3, currency |-> "KGS", status |-> "frozen"]

Currencies == {"KGS", "USD"}

\* ---------------------------------------------------------------- messages
\* A localized message is the pair of the language it is rendered in and its
\* key in _MSG, with the format arguments.
_t(lang, key, args) ==
  [lang |-> IF lang \in {"ky", "ru"} THEN lang ELSE "ky", key |-> key, args |-> args]

\* The inline texts of the tool handlers: `... if lang == "ky" else ...`.
ToolText(lang, key) ==
  [lang |-> IF lang = "ky" THEN "ky" ELSE "ru", key |-> key, args |-> <<>>]

NoResult == [kind |-> "none"]
Return(ok, msg) == [kind |-> "return", ok |-> ok, msg |-> msg]
ToolReturn(msg) == [kind |-> "text", msg |-> msg]
Raise(exc) == [kind |-> "raise", exc |-> exc]

\* ------------------------------------------------------------------ amount
\* The amount argument: a number (in thousandths), a text that is no number,
\* NaN or Infinity.
Num(mills) == [kind |-> "num", mills |-> mills]
TextAmount == [kind |-> "text"]
NaNAmount == [kind |-> "nan"]
InfAmount == [kind |-> "inf"]

\* Mutant: the amount is cut to two places instead of rounded.
RoundDown(mills) == mills \div 10

\* ROUND_HALF_UP to two places: ties go away from zero.
RoundHalfUp(mills) ==
  IF mills >= 0 THEN (mills + 5) \div 10 ELSE 0 - ((0 - mills + 5) \div 10)

\* Decimal(str(amount)).quantize(Decimal("0.01"), rounding=ROUND_HALF_UP):
\* InvalidOperation for a text and for an infinity, NaN for NaN.
Quantize(amount) ==
  CASE amount.kind = "num" -> [kind |-> "num", cents |-> RoundHalfUp(amount.mills)]
    [] amount.kind = "nan" -> [kind |-> "nan"]
    [] OTHER -> [kind |-> "invalid"]

\* ------------------------------------------------------------------ inputs
Procs == {"p1", "p2"}

\* Arguments of a call: every case of the argument handling.
ArgCustomerIds == {1, 2, 3, 9}

ToNames ==
  { <<" ", "B", "O", " ", " ", "L", "i">>,
    <<"a", "l", " ", "u", "u">>,
    <<"C", "y", " ", "M", "o">>,
    <<"z", "z">> }

Amounts ==
  {Num(0 - 10), Num(0), Num(4), Num(5), Num(14), Num(20),
   TextAmount, NaNAmount, InfAmount}

Langs == {"ky", "ru", "en"}

\* Arguments of the calls that run concurrently: requests that reach the
\* transaction block, and one of each kind that does not.
ConcurrentNames == {<<" ", "B", "O", " ", " ", "L", "i">>, <<"a", "l", " ", "u", "u">>}
ConcurrentAmounts == {Num(5), Num(20)}
ConcurrentLangs == {"ru"}

\* The balances at the start, by account id.
InitialLedgers == {<<2, 2, 0, 0, 0>>, <<2, 2, 2, 1, 0>>}

ConcurrentCustomerIds == {1, 2}

\* ------------------------------------------------------------------- state
VARIABLES
  balance,    \* accounts.balance of every account row, committed
  balance0,   \* the balances at the start
  tx,         \* the transactions table, in insertion order
  clock,      \* the last reading of datetime.utcnow()
  lockedBy,   \* the transaction holding the row lock of each account row
  pc,         \* where each tool call stands
  call,       \* the arguments and locals of each tool call
  user,       \* the authenticated user respond dispatched each call for, if any
  ncalls,     \* tool calls dispatched so far
  fn,         \* a function or a read tool applied on its own: arguments and result
  reply       \* respond: the text received, the markers, the results and the reply

vars == <<balance, balance0, tx, clock, lockedBy, pc, call, user, ncalls, fn, reply>>

\* No keyword arguments.
NoArgs == [k \in {} |-> k]

NoCall ==
  [tool |-> "none", customer_id |-> NoCustomer, to_name |-> <<>>,
   amount |-> Num(0), currency |-> "", lang |-> "",
   amt |-> 0, to_customer |-> NoCustomer,
   from_acc |-> NoAccount, to_acc |-> NoAccount,
   from_balance |-> 0, to_balance |-> 0,
   staged |-> "", now |-> 0, overlapped |-> FALSE, result |-> NoResult,
   session |-> "new", kwargs |-> NoArgs]

InFlight(p) == pc[p] \notin {"idle", "done"}

\* No function applied, no response being assembled.
NoFn == [op |-> "none", n |-> 0]
NoReply == [at |-> "none"]

InitLedger ==
  /\ balance0 \in InitialLedgers
  /\ balance = balance0
  /\ tx = <<>>
  /\ clock = 0
  /\ lockedBy = [a \in AccountIds |-> NoProc]
  /\ pc = [p \in Procs |-> "idle"]
  /\ call = [p \in Procs |-> NoCall]
  /\ user = [p \in Procs |-> NoCustomer]
  /\ ncalls = 0

Init == InitLedger /\ fn = NoFn /\ reply = NoReply

\* ------------------------------------------------------- transfer_money
\* Mutant: the stored name is compared without lower().
CustomersNamedCaseSensitive(norm) ==
  {c \in CustomerIds :
     Strip(Customer(c).first_name \o <<Space>> \o Customer(c).last_name) = norm}

\* The recipient query: lower(trim(first_name || ' ' || last_name)) == norm.
CustomersNamed(norm) ==
  {c \in CustomerIds :
     Lower(Strip(Customer(c).first_name \o <<Space>> \o Customer(c).last_name)) = norm}

\* Mutant: the statements do not filter by currency.
ActiveAccountsAnyCurrency(customer_id, currency) ==
  {a \in AccountIds : /\ Account(a).customer_id = customer_id
                      /\ Account(a).status = "active"}

\* Mutant: the statements do not filter by status.
ActiveAccountsAnyStatus(customer_id, currency) ==
  {a \in AccountIds : /\ Account(a).customer_id = customer_id
                      /\ Account(a).currency = currency}

\* from_acc_stmt / to_acc_stmt: the active accounts of a customer in a currency.
ActiveAccounts(customer_id, currency) ==
  {a \in AccountIds : /\ Account(a).customer_id = customer_id
                      /\ Account(a).status = "active"
                      /\ Account(a).currency = currency}

\* Mutant: the statements take no row lock (FOR UPDATE left out).
LockFreeNoLocking(a, p) == TRUE

\* A row lock is granted when no other transaction holds it.
LockFree(a, p) == lockedBy[a] \in {NoProc, p}

Finish(p, rec) ==
  /\ pc' = [pc EXCEPT ![p] = "done"]
  /\ call' = [call EXCEPT ![p] = rec]

\* A call that starts while another is in flight runs concurrently with it.
Enter(p, rec) ==
  LET others == {q \in Procs \ {p} : InFlight(q)} IN
  /\ pc' = [pc EXCEPT ![p] = "begin"]
  /\ call' = [q \in Procs |->
               IF q = p THEN [rec EXCEPT !.overlapped = (others # {})]
               ELSE IF q \in others THEN [call[q] EXCEPT !.overlapped = TRUE]
               ELSE call[q]]

\* transfer_money_tool up to the first statement of the transaction block:
\* the caller is loaded (session.get begins the session's transaction), the
\* amount validated and the recipient resolved.
transfer_money_tool(p, customer_id, to_name, amount, currency, lang) ==
  /\ pc[p] \in {"idle", "done"}
  /\ ncalls' = ncalls + 1
  /\ LET rec == [NoCall EXCEPT !.tool = "transfer_money",
                               !.customer_id = customer_id, !.to_name = to_name,
                               !.amount = amount, !.currency = currency,
                               !.lang = lang, !.session = "begun"]
         q == Quantize(amount)
         found == CustomersNamed(_normalize_name(to_name))
     IN
     IF customer_id \notin CustomerIds
     THEN Finish(p, [rec EXCEPT !.result = ToolReturn(ToolText(lang, "customer_not_found"))])
     ELSE IF q.kind = "invalid"
     THEN Finish(p, [rec EXCEPT !.result = Return(FALSE, _t(lang, "wrong_amount", <<>>))])
     ELSE IF q.kind = "nan"
     THEN Finish(p, [rec EXCEPT !.result = Raise("InvalidOperation")])
     ELSE IF q.cents <= 0
     THEN Finish(p, [rec EXCEPT !.result = Return(FALSE, _t(lang, "need_amount", <<>>))])
     ELSE IF found = {}
     THEN Finish(p, [rec EXCEPT !.amt = q.cents,
                                !.result = Return(FALSE, _t(lang, "user_not_found", <<to_name>>))])
     ELSE \E to_customer \in found :
            IF to_customer = customer_id
            THEN Finish(p, [rec EXCEPT !.amt = q.cents, !.to_customer = to_customer,
                                       !.result = Return(FALSE, _t(lang, "cannot_self", <<>>))])
            ELSE Enter(p, [rec EXCEPT !.amt = q.cents, !.to_customer = to_customer])
  /\ UNCHANGED <<balance, balance0, tx, clock, lockedBy>>

\* The row a `SELECT ... FOR UPDATE LIMIT 1` scan stops at: any row of the
\* result (no ORDER BY), or none.
Scan(rows) == IF rows = {} THEN {NoAccount} ELSE rows

\* async with session.begin(): the transaction block is entered and
\* from_acc_stmt is sent; its scan stops at the row to lock.
BeginTransaction(p) ==
  /\ pc[p] = "begin"
  /\ \E a \in Scan(ActiveAccounts(call[p].customer_id, call[p].currency)) :
        call' = [call EXCEPT ![p].from_acc = a]
  /\ pc' = [pc EXCEPT ![p] = "lock_from"]
  /\ UNCHANGED <<balance, balance0, tx, clock, lockedBy, user, ncalls, fn, reply>>

\* from_acc_stmt returns once its row lock is granted, with the row as
\* committed at that moment; to_acc_stmt is sent.
LockFromAcc(p) ==
  /\ pc[p] = "lock_from"
  /\ LET a == call[p].from_acc IN
     /\ a # NoAccount => LockFree(a, p)
     /\ lockedBy' = [b \in AccountIds |-> IF b = a THEN p ELSE lockedBy[b]]
     /\ \E t \in Scan(ActiveAccounts(call[p].to_customer, call[p].currency)) :
          call' = [call EXCEPT ![p].from_balance = IF a = NoAccount THEN 0 ELSE balance[a],
                               ![p].to_acc = t]
  /\ pc' = [pc EXCEPT ![p] = "lock_to"]
  /\ UNCHANGED <<balance, balance0, tx, clock, user, ncalls, fn, reply>>

\* Mutant: the funds check is left out.
ChecksNoFunds(from_acc, to_acc, from_balance, amt) ==
  IF from_acc = NoAccount \/ to_acc = NoAccount THEN "accounts_missing"
  ELSE IF Account(from_acc).status # "active" \/ Account(to_acc).status # "active"
  THEN "account_blocked"
  ELSE "ok_transfer"

\* Mutant: insufficient funds are reported with the wrong message.
ChecksWrongMessage(from_acc, to_acc, from_balance, amt) ==
  IF from_acc = NoAccount \/ to_acc = NoAccount THEN "accounts_missing"
  ELSE IF Account(from_acc).status # "active" \/ Account(to_acc).status # "active"
          \/ from_balance < amt
  THEN "account_blocked"
  ELSE "ok_transfer"

\* The checks of the block on the two locked rows.
Checks(from_acc, to_acc, from_balance, amt) ==
  IF from_acc = NoAccount \/ to_acc = NoAccount THEN "accounts_missing"
  ELSE IF Account(from_acc).status # "active" \/ Account(to_acc).status # "active"
  THEN "account_blocked"
  ELSE IF from_balance < amt THEN "not_enough"
  ELSE "ok_transfer"

\* to_acc_stmt returns once its row lock is granted; the checks run and the
\* writes are staged in the session (nothing reaches the store before the
\* block is left).
LockToAcc(p) ==
  /\ pc[p] = "lock_to"
  /\ LET a == call[p].to_acc
         to_balance == IF a = NoAccount THEN 0 ELSE balance[a]
         staged == Checks(call[p].from_acc, a, call[p].from_balance, call[p].amt)
     IN
     /\ a # NoAccount => LockFree(a, p)
     /\ lockedBy' = [b \in AccountIds |-> IF b = a THEN p ELSE lockedBy[b]]
     /\ IF staged = "ok_transfer"
        THEN \E now \in {clock, clock + 1} :
               /\ clock' = now
               /\ call' = [call EXCEPT ![p].to_balance = to_balance,
                                       ![p].staged = staged, ![p].now = now]
        ELSE /\ clock' = clock
             /\ call' = [call EXCEPT ![p].to_balance = to_balance, ![p].staged = staged]
  /\ pc' = [pc EXCEPT ![p] = "commit"]
  /\ UNCHANGED <<balance, balance0, tx, user, ncalls, fn, reply>>

Unlock(p) == lockedBy' = [a \in AccountIds |-> IF lockedBy[a] = p THEN NoProc ELSE lockedBy[a]]

\* f"from {_full_name(from_customer)} to {_full_name(to_customer)}"
desc(from_name, to_name) ==
  <<"f", "r", "o", "m", " ">> \o from_name \o <<" ", "t", "o", " ">> \o to_name

Transaction(account_id, type, c) ==
  [account_id |-> account_id, transaction_type |-> type, amount |-> c.amt,
   currency |-> c.currency,
   description |-> desc(_full_name(c.customer_id), _full_name(c.to_customer)),
   status |-> "completed", created_at |-> c.now]

\* The balances the block assigns to the two rows.
NewFromBalance(c) == c.from_balance - c.amt

\* Mutant: the credit is left out.
NewToBalanceNoCredit(c) == c.to_balance

NewToBalance(c) == c.to_balance + c.amt

\* The rows the flush writes.
FlushBalances(c) ==
  [a \in AccountIds |->
     IF a = c.from_acc THEN NewFromBalance(c)
     ELSE IF a = c.to_acc THEN NewToBalance(c)
     ELSE balance[a]]

\* Mutant: only the outgoing row is written.
FlushTransactionsOneRow(c) == Append(tx, Transaction(c.from_acc, "transfer", c))

\* Mutant: the flush replaces the rows of the table by the two new rows.
FlushTransactionsOverwrite(c) ==
  << Transaction(c.from_acc, "transfer", c), Transaction(c.to_acc, "deposit", c) >>

FlushTransactions(c) ==
  tx \o << Transaction(c.from_acc, "transfer", c), Transaction(c.to_acc, "deposit", c) >>

\* The block is left: the session flushes the staged writes and commits, both
\* row locks are released and transfer_money returns.
Commit(p) ==
  /\ pc[p] = "commit"
  /\ LET c == call[p] IN
     IF c.staged = "ok_transfer"
     THEN /\ balance' = FlushBalances(c)
          /\ tx' = FlushTransactions(c)
          /\ Finish(p, [c EXCEPT !.result =
                 Return(TRUE, _t(c.lang, "ok_transfer", <<c.amt, _full_name(c.to_customer)>>))])
     ELSE /\ UNCHANGED <<balance, tx>>
          /\ Finish(p, [c EXCEPT !.result = Return(FALSE, _t(c.lang, c.staged, <<>>))])
  /\ Unlock(p)
  /\ UNCHANGED <<balance0, clock, user, ncalls, fn, reply>>

\* Mutant: the staged balances reach the store although the block fails.
RollbackKeepsBalances(p) ==
  /\ pc[p] \in {"lock_from", "lock_to", "commit"}
  /\ balance' = IF call[p].staged = "ok_transfer" THEN FlushBalances(call[p]) ELSE balance
  /\ Finish(p, [call[p] EXCEPT !.from_acc = NoAccount, !.to_acc = NoAccount,
                              !.from_balance = 0, !.to_balance = 0, !.now = 0,
                              !.result = Raise("rollback")])
  /\ Unlock(p)
  /\ UNCHANGED <<balance0, tx, clock, user, ncalls, fn, reply>>

\* The request is cancelled, or a statement fails, inside the block: the
\* transaction is rolled back, the locks are released, the exception leaves
\* transfer_money.
Rollback(p) ==
  /\ pc[p] \in {"lock_from", "lock_to", "commit"}
  /\ Finish(p, [call[p] EXCEPT !.from_acc = NoAccount, !.to_acc = NoAccount,
                              !.from_balance = 0, !.to_balance = 0, !.now = 0,
                              !.result = Raise("rollback")])
  /\ Unlock(p)
  /\ UNCHANGED <<balance, balance0, tx, clock, user, ncalls, fn, reply>>

\* ------------------------------------------------------------ get_balance
Sum(f, S) ==
  LET RECURSIVE go(_)
      go(T) == IF T = {} THEN 0
               ELSE LET x == CHOOSE y \in T : TRUE IN f[x] + go(T \ {x})
  IN go(S)

get_balance_tool(p, customer_id, lang) ==
  /\ pc[p] \in {"idle", "done"}
  /\ ncalls' = ncalls + 1
  /\ LET rec == [NoCall EXCEPT !.tool = "get_balance",
                               !.customer_id = customer_id, !.lang = lang,
                               !.session = "begun"]
         accounts == {a \in AccountIds : Account(a).customer_id = customer_id}
     IN
     IF customer_id \notin CustomerIds
     THEN Finish(p, [rec EXCEPT !.result = ToolReturn(ToolText(lang, "customer_not_found"))])
     ELSE IF accounts = {}
     THEN Finish(p, [rec EXCEPT !.result = ToolReturn(_t(lang, "no_accounts", <<>>))])
     ELSE Finish(p, [rec EXCEPT !.result =
                       ToolReturn(_t(lang, "total_balance", <<Sum(balance, accounts)>>))])
  /\ UNCHANGED <<balance, balance0, tx, clock, lockedBy>>

\* ------------------------------------------------------------ call grammar
\* The marker texts are strings; Ch(s, i) is the i-th character of s.
Ch(s, i) == SubSeq(s, i, i)
From(s, i) == SubSeq(s, i, Len(s))

Digits == {"0", "1", "2", "3", "4", "5", "6", "7", "8", "9"}

LowerLetters ==
  {"a", "b", "c", "d", "e", "f", "g", "h", "i", "j", "k", "l", "m",
   "n", "o", "p", "q", "r", "s", "t", "u", "v", "w", "x", "y", "z"}

UpperLetters ==
  {"A", "B", "C", "D", "E", "F", "G", "H", "I", "J", "K", "L", "M",
   "N", "O", "P", "Q", "R", "S", "T", "U", "V", "W", "X", "Y", "Z"}

\* The classes \s, \w and . (which no newline matches) of the patterns.
IsSpace(c) == c \in {" ", "\n", "\t"}
IsWord(c) == c \in Digits \cup LowerLetters \cup UpperLetters \cup {"_"}
IsDot(c) == c # "\n"

\* str.strip() and str.lower() of a string.
RECURSIVE SkipWs(_, _)
SkipWs(s, i) == IF i <= Len(s) /\ IsSpace(Ch(s, i)) THEN SkipWs(s, i + 1) ELSE i

RECURSIVE SkipWsBack(_, _)
SkipWsBack(s, i) == IF i >= 1 /\ IsSpace(Ch(s, i)) THEN SkipWsBack(s, i - 1) ELSE i

StrStrip(s) == SubSeq(s, SkipWs(s, 1), SkipWsBack(s, Len(s)))

RECURSIVE StrLower(_)
StrLower(s) == IF Len(s) = 0 THEN "" ELSE LowerCh(Ch(s, 1)) \o StrLower(From(s, 2))

\* The characters of a string, as the sequence the name handling works on.
Chars(s) == [i \in 1..Len(s) |-> Ch(s, i)]

\* The end (exclusive) of the longest run of \w from i.
RECURSIVE SkipWord(_, _)
SkipWord(s, i) == IF i <= Len(s) /\ IsWord(Ch(s, i)) THEN SkipWord(s, i + 1) ELSE i

\* The position of the first comma of s from i, or 0.
RECURSIVE FindComma(_, _)
FindComma(s, i) ==
  IF i > Len(s) THEN 0 ELSE IF Ch(s, i) = "," THEN i ELSE FindComma(s, i + 1)

\* _FUNC_RE.match(s): ^name=(?P<name>[^,]+)(?:\s*,\s*(?P<args>.*))?$ (DOTALL).
_FUNC_RE(s) ==
  IF Len(s) < 5 \/ SubSeq(s, 1, 5) # "name=" THEN [ok |-> FALSE]
  ELSE LET comma == FindComma(s, 6) IN
       IF comma = 0
       THEN IF Len(s) >= 6 THEN [ok |-> TRUE, name |-> From(s, 6), args |-> ""]
            ELSE [ok |-> FALSE]
       ELSE IF comma = 6 THEN [ok |-> FALSE]
       ELSE [ok |-> TRUE, name |-> SubSeq(s, 6, comma - 1),
             args |-> From(s, SkipWs(s, comma + 1))]

\* The lookahead (?=,\s*\w+=|$) at position q.
Lookahead(s, q) ==
  \/ q > Len(s)
  \/ /\ Ch(s, q) = ","
     /\ LET w == SkipWs(s, q + 1)
            e == SkipWord(s, w)
        IN e > w /\ e <= Len(s) /\ Ch(s, e) = "="

\* (?P<v>.+?)\s*(?=...): the end (exclusive) of the shortest value from vs
\* that the lookahead follows, the value being [vs, e); 0 if there is none.
RECURSIVE ValueEnd(_, _, _)
ValueEnd(s, vs, e) ==
  IF e > Len(s) + 1 \/ e <= vs THEN 0
  ELSE IF ~IsDot(Ch(s, e - 1)) THEN 0
  ELSE IF Lookahead(s, SkipWs(s, e)) THEN e
  ELSE ValueEnd(s, vs, e + 1)

\* \s*(?P<v>...) after the equals sign at eq: the \s* takes the whole run of
\* white space, and gives it back one character at a time while no value
\* matches behind it.
RECURSIVE ValueFrom(_, _, _)
ValueFrom(s, eq, vs) ==
  IF vs <= eq THEN [ok |-> FALSE]
  ELSE LET e == ValueEnd(s, vs, vs + 1) IN
       IF e # 0 THEN [ok |-> TRUE, v |-> SubSeq(s, vs, e - 1), end |-> SkipWs(s, e)]
       ELSE ValueFrom(s, eq, vs - 1)

\* _ARG_RE matched at position i:
\*   \s*(?P<k>\w+)\s*=\s*(?P<v>.+?)\s*(?=,\s*\w+=|$)
_ARG_RE(s, i) ==
  LET ks == SkipWs(s, i)
      ke == SkipWord(s, ks)
      eq == SkipWs(s, ke)
  IN IF ke = ks \/ eq > Len(s) \/ Ch(s, eq) # "=" THEN [ok |-> FALSE]
     ELSE LET m == ValueFrom(s, eq, SkipWs(s, eq + 1)) IN
          IF m.ok THEN [ok |-> TRUE, k |-> SubSeq(s, ks, ke - 1), v |-> m.v, end |-> m.end]
          ELSE [ok |-> FALSE]

\* _ARG_RE.finditer(s): the matches from left to right; a position where the
\* pattern does not match is passed over.
RECURSIVE finditer(_, _)
finditer(s, i) ==
  IF i > Len(s) THEN <<>>
  ELSE LET m == _ARG_RE(s, i) IN
       IF m.ok THEN <<[k |-> m.k, v |-> m.v]>> \o finditer(s, m.end)
       ELSE finditer(s, i + 1)

\* The values _coerce_value returns.
Bool(b) == [t |-> "bool", b |-> b]
Null == [t |-> "null"]
Int_(i) == [t |-> "int", i |-> i]
Float(num, exp) == [t |-> "float", num |-> num, exp |-> exp]
Json(kind, items) == [t |-> "json", kind |-> kind, items |-> items]
Str(s) == [t |-> "str", s |-> s]

DigitValue(c) ==
  CASE c = "0" -> 0 [] c = "1" -> 1 [] c = "2" -> 2 [] c = "3" -> 3 [] c = "4" -> 4
    [] c = "5" -> 5 [] c = "6" -> 6 [] c = "7" -> 7 [] c = "8" -> 8 [] c = "9" -> 9

AllDigits(s) == Len(s) > 0 /\ \A i \in 1..Len(s) : Ch(s, i) \in Digits

RECURSIVE ParseDigits(_)
ParseDigits(s) ==
  IF Len(s) = 0 THEN 0
  ELSE 10 * ParseDigits(SubSeq(s, 1, Len(s) - 1)) + DigitValue(Ch(s, Len(s)))

HasSign(s) == Len(s) > 0 /\ Ch(s, 1) \in {"+", "-"}
Unsigned(s) == IF HasSign(s) THEN From(s, 2) ELSE s
Signed(s, n) == IF HasSign(s) /\ Ch(s, 1) = "-" THEN 0 - n ELSE n

\* re.fullmatch(r"[+-]?\d+", s) and int(s)
IsInteger(s) == AllDigits(Unsigned(s))
int(s) == Signed(s, ParseDigits(Unsigned(s)))

\* The position of the first "." of s from i, or 0.
RECURSIVE FindPoint(_, _)
FindPoint(s, i) ==
  IF i > Len(s) THEN 0 ELSE IF Ch(s, i) = "." THEN i ELSE FindPoint(s, i + 1)

\* re.fullmatch(r"[+-]?\d+\.\d+", s)
IsDecimal(s) ==
  LET u == Unsigned(s)
      point == FindPoint(u, 1)
  IN point # 0 /\ AllDigits(SubSeq(u, 1, point - 1)) /\ AllDigits(From(u, point + 1))

\* float(s): the number num / 10^exp, without trailing zeros.
RECURSIVE Normal(_, _)
Normal(num, exp) ==
  IF exp > 0 /\ num % 10 = 0 THEN Normal(num \div 10, exp - 1) ELSE Float(num, exp)

float(s) ==
  LET u == Unsigned(s)
      point == FindPoint(u, 1)
      whole == SubSeq(u, 1, point - 1)
      frac == From(u, point + 1)
      n == Normal(ParseDigits(whole \o frac), Len(frac))
  IN Float(Signed(s, n.num), n.exp)

\* The integers of "1, 2" (the inside of a JSON array), or failure.
RECURSIVE JsonIntegers(_)
JsonIntegers(s) ==
  LET comma == FindComma(s, 1)
      first == StrStrip(IF comma = 0 THEN s ELSE SubSeq(s, 1, comma - 1))
      literal == IF Len(first) > 0 /\ Ch(first, 1) = "-" THEN From(first, 2) ELSE first
      valid == AllDigits(literal) /\ (Len(literal) = 1 \/ Ch(literal, 1) # "0")
  IN IF ~valid THEN [ok |-> FALSE]
     ELSE IF comma = 0 THEN [ok |-> TRUE, items |-> <<int(first)>>]
     ELSE LET rest == JsonIntegers(From(s, comma + 1)) IN
          IF rest.ok THEN [ok |-> TRUE, items |-> <<int(first)>> \o rest.items]
          ELSE [ok |-> FALSE]

\* json.loads(s) on the texts of the model: the empty object, the empty array
\* and arrays of integers are JSON; no other text between brackets that the
\* model uses is.
json_loads(s) ==
  LET inside == StrStrip(SubSeq(s, 2, Len(s) - 1)) IN
  IF Ch(s, 1) = "{"
  THEN IF inside = "" THEN [ok |-> TRUE, v |-> Json("object", <<>>)] ELSE [ok |-> FALSE]
  ELSE IF inside = "" THEN [ok |-> TRUE, v |-> Json("array", <<>>)]
  ELSE LET items == JsonIntegers(inside) IN
       IF items.ok THEN [ok |-> TRUE, v |-> Json("array", items.items)]
       ELSE [ok |-> FALSE]

Bracketed(s) ==
  /\ Len(s) >= 2
  /\ \/ Ch(s, 1) = "{" /\ Ch(s, Len(s)) = "}"
     \/ Ch(s, 1) = "[" /\ Ch(s, Len(s)) = "]"

_coerce_value(v) ==
  LET s == StrStrip(v)
      low == StrLower(s)
  IN IF low = "true" THEN Bool(TRUE)
     ELSE IF low = "false" THEN Bool(FALSE)
     ELSE IF low \in {"null", "none"} THEN Null
     ELSE IF IsInteger(s) THEN Int_(int(s))
     ELSE IF IsDecimal(s) THEN float(s)
     ELSE IF Bracketed(s) /\ json_loads(s).ok THEN json_loads(s).v
     ELSE Str(s)

\* The outer quotes of a value are taken off.
Unquote(v) ==
  IF /\ Len(v) >= 2
     /\ \/ Ch(v, 1) = "\"" /\ Ch(v, Len(v)) = "\""
        \/ Ch(v, 1) = "'" /\ Ch(v, Len(v)) = "'"
  THEN SubSeq(v, 2, Len(v) - 1) ELSE v

\* kwargs[k] = ... for the matches in order: the last match of a key stays.
Kwargs(matches) ==
  LET last(k) == CHOOSE i \in 1..Len(matches) :
                   /\ matches[i].k = k
                   /\ \A j \in (i + 1)..Len(matches) : matches[j].k # k
  IN [k \in {matches[i].k : i \in 1..Len(matches)} |->
        _coerce_value(Unquote(matches[last(k)].v))]

_parse_func_call(s) ==
  LET m == _FUNC_RE(StrStrip(s)) IN
  IF ~m.ok THEN [ok |-> FALSE, exc |-> "ValueError"]
  ELSE [ok |-> TRUE, name |-> StrStrip(m.name), kwargs |-> Kwargs(finditer(m.args, 1))]

\* ---------------------------------------------------------------- respond
\* tools_params: the allow-list of each tool's parameter names.
tools_params ==
  [get_balance |-> {"customer_id", "lang"},
   get_transactions |-> {"customer_id", "limit", "lang"},
   transfer_money |-> {"customer_id", "to_name", "amount", "currency", "lang"},
   get_card_details |-> {"card_name"},
   list_all_card_names |-> {}]

\* Mutant: a tool without an allow-list keeps its arguments.
filter_tool_args_unlisted(name, kwargs) ==
  IF name \in DOMAIN tools_params
  THEN [k \in {k \in DOMAIN kwargs : k \in tools_params[name]} |-> kwargs[k]]
  ELSE kwargs

\* Mutant: the filter lets the caller's id and the language through.
filter_tool_args_keeps_injected(name, kwargs) ==
  LET valid_params == IF name \in DOMAIN tools_params THEN tools_params[name] ELSE {}
  IN [k \in {k \in DOMAIN kwargs : k \in valid_params \cup {"customer_id", "lang"}} |-> kwargs[k]]

\* tools_params.get(name, []), then the entries whose key is in it.
filter_tool_args(name, kwargs) ==
  LET valid_params == IF name \in DOMAIN tools_params THEN tools_params[name] ELSE {}
  IN [k \in {k \in DOMAIN kwargs : k \in valid_params} |-> kwargs[k]]

default_language == "ky"

\* `language or self.default_language`
LanguageOrDefault(language) == IF language = "" THEN default_language ELSE language

\* The tools of the MCP server that the model covers.
ServerTools == {"get_balance", "transfer_money", "get_card_details"}

Arg(args, k, default) == IF k \in DOMAIN args THEN args[k] ELSE default

\* The text get_card_details_tool makes of the catalogue's entry for the card.
CardDetails(card_name) == [lang |-> "ky", key |-> "card_details", args |-> <<card_name>>]

\* get_card_details_tool, called with the keyword arguments kwargs: its one
\* parameter is card_name; kwargs records what the handler was handed.
get_card_details_tool(p, kwargs) ==
  /\ pc[p] \in {"idle", "done"}
  /\ ncalls' = ncalls + 1
  /\ Finish(p, [NoCall EXCEPT !.tool = "get_card_details", !.kwargs = kwargs,
                              !.result = IF "card_name" \in DOMAIN kwargs
                                         THEN ToolReturn(CardDetails(kwargs["card_name"]))
                                         ELSE Raise("TypeError")])
  /\ UNCHANGED <<balance, balance0, tx, clock, lockedBy>>

\* call_mcp_tool: the tool must be listed by the server; the handler is then
\* invoked with the arguments as keywords, its defaults filling the rest.
call_mcp_tool(p, tool_name, tool_args) ==
  IF tool_name \notin ServerTools
  THEN /\ pc[p] \in {"idle", "done"}
       /\ ncalls' = ncalls + 1
       /\ Finish(p, [NoCall EXCEPT !.tool = tool_name, !.result = Raise("ValueError")])
       /\ UNCHANGED <<balance, balance0, tx, clock, lockedBy>>
  ELSE IF tool_name = "transfer_money"
  THEN IF {"customer_id", "to_name"} \subseteq DOMAIN tool_args
       THEN transfer_money_tool(p, tool_args["customer_id"], tool_args["to_name"],
                                Arg(tool_args, "amount", Num(0)),
                                Arg(tool_args, "currency", "KGS"),
                                Arg(tool_args, "lang", "ky"))
       ELSE /\ pc[p] \in {"idle", "done"}
            /\ ncalls' = ncalls + 1
            /\ Finish(p, [NoCall EXCEPT !.tool = tool_name, !.result = Raise("TypeError")])
            /\ UNCHANGED <<balance, balance0, tx, clock, lockedBy>>
  ELSE IF tool_name = "get_card_details"
  THEN get_card_details_tool(p, tool_args)
  ELSE IF "customer_id" \in DOMAIN tool_args
       THEN get_balance_tool(p, tool_args["customer_id"], Arg(tool_args, "lang", "ky"))
       ELSE /\ pc[p] \in {"idle", "done"}
            /\ ncalls' = ncalls + 1
            /\ Finish(p, [NoCall EXCEPT !.tool = tool_name, !.result = Raise("TypeError")])
            /\ UNCHANGED <<balance, balance0, tx, clock, lockedBy>>

\* The caller's id, added to the arguments of a marker that names none.
InjectCustomerId(u, kwargs) ==
  IF u # NoCustomer /\ "customer_id" \notin DOMAIN kwargs
  THEN kwargs @@ ("customer_id" :> u) ELSE kwargs

InjectLang(language, kwargs) ==
  IF "lang" \notin DOMAIN kwargs
  THEN kwargs @@ ("lang" :> LanguageOrDefault(language)) ELSE kwargs

\* The body of respond's loop for one parsed call marker (name, kwargs) of a
\* response to user u (NoCustomer: no user).
respond(p, u, language, name, kwargs) ==
  /\ call_mcp_tool(p, name,
       filter_tool_args(name, InjectLang(language, InjectCustomerId(u, kwargs))))
  /\ user' = [user EXCEPT ![p] = u]
  /\ fn' = [op |-> "respond", n |-> fn.n, language |-> language, name |-> name,
            kwargs |-> kwargs]
  /\ UNCHANGED reply

\* The arguments a marker may carry.
Optional(k, values) == {NoArgs} \cup {k :> v : v \in values}

MarkerArgs ==
  {a @@ b @@ c @@ d @@ e :
     a \in Optional("customer_id", {2, 9}),
     b \in Optional("to_name", {<<" ", "B", "O", " ", " ", "L", "i">>}),
     c \in Optional("amount", {Num(20)}),
     d \in Optional("lang", {"en"}),
     e \in Optional("secret", {"x"})}
  \cup
  {a @@ d @@ f :
     a \in Optional("customer_id", {2, 9}),
     d \in Optional("lang", {"en"}),
     f \in {"card_name" :> "Visa"}}

MarkerNames == {"get_balance", "transfer_money", "get_card_details", "drop_tables"}
RespondUsers == {NoCustomer, 1, 2}
RespondLanguages == {"", "ru"}

\* ----------------------------------------------------------- specification
\* A tool call arriving at the MCP server from any client.
Dispatch(p, customer_ids, to_names, amounts, langs) ==
  /\ \/ \E customer_id \in customer_ids, to_name \in to_names, amount \in amounts,
           currency \in Currencies, lang \in langs :
          transfer_money_tool(p, customer_id, to_name, amount, currency, lang)
     \/ \E customer_id \in customer_ids, lang \in langs :
          get_balance_tool(p, customer_id, lang)
  /\ user' = [user EXCEPT ![p] = NoCustomer]
  /\ UNCHANGED <<fn, reply>>

Step(p) ==
  \/ BeginTransaction(p)
  \/ LockFromAcc(p)
  \/ LockToAcc(p)
  \/ Commit(p)
  \/ Rollback(p)

\* Tool calls of concurrent requests, each in its own server process and session.
Next ==
  \E p \in Procs :
    \/ /\ ncalls < MaxCalls
       /\ Dispatch(p, ConcurrentCustomerIds, ConcurrentNames, ConcurrentAmounts, ConcurrentLangs)
    \/ Step(p)

Spec == Init /\ [][Next]_vars

\* Tool calls one after the other, over every case of the arguments.
NextSeq ==
  \/ /\ ncalls < MaxSeqCalls
     /\ Dispatch("p1", ArgCustomerIds, ToNames, Amounts, Langs)
  \/ Step("p1")

SpecSeq == Init /\ [][NextSeq]_vars

\* Call markers of assistant responses, dispatched one after the other.
NextRespond ==
  \/ /\ ncalls < MaxRespondCalls
     /\ \E u \in RespondUsers, language \in RespondLanguages, name \in MarkerNames,
           kwargs \in MarkerArgs :
          respond("p1", u, language, name, kwargs)
  \/ Step("p1")

SpecRespond == Init /\ [][NextRespond]_vars

\* filter_tool_args applied to a tool name and the arguments of a marker.
FilterNames ==
  {"get_balance", "get_transactions", "transfer_money", "list_all_card_names", "drop_tables"}

FilterArgs ==
  {a @@ b @@ c @@ d @@ e @@ f :
     a \in Optional("customer_id", {2}),
     b \in Optional("lang", {"ru"}),
     c \in Optional("limit", {5}),
     d \in Optional("to_name", {<<"B", "o", " ", "L", "i">>}),
     e \in Optional("amount", {Num(20)}),
     f \in Optional("secret", {"x"})}

ApplyFilter ==
  /\ fn.n < MaxFilterCalls
  /\ \E name \in FilterNames, kwargs \in FilterArgs :
       fn' = [op |-> "filter_tool_args", n |-> fn.n + 1,
              name |-> name, kwargs |-> kwargs, out |-> filter_tool_args(name, kwargs)]
  /\ UNCHANGED <<balance, balance0, tx, clock, lockedBy, pc, call, user, ncalls, reply>>

NextFilter == ApplyFilter

SpecFilter == Init /\ [][NextFilter]_vars

\* _parse_func_call applied to the body of a marker: the examples of the
\* grammar, bodies that break it, and every body of a tool name and two
\* argument segments.
ParseExamples ==
  {"name=get_balance, customer_id=7, lang=ky",
   "name=transfer_money, to_name=Aigerim Sadykova, amount=150.5, currency=USD",
   "name=t, a=\"x",
   "name=t, a=None",
   "name=t, a=1.",
   "name=t, a={}",
   "name=t, a=[1, b=2]",
   "name=t, a=[x]",
   "name=",
   "name=,a=1",
   "nam=t, a=1",
   "t, a=1",
   "name=t, a=1, junk",
   "name=t, a=, b=1",
   "name=t, a=1, b =2",
   "name=t a=1",
   "name=t, =5",
   "name=t, a=1, a=2",
   " name=t ",
   "name=t,",
   "name=t, a==1",
   "name=t, a=1,, b=2",
   "name=t, a=\"\"",
   "name=t, a= , b=1\nz",
   "NAME=t",
   "name=t\n, a=1",
   "name=t, a=\" 7 \"",
   "name=t, a=07",
   "name=t, a=\"[1]\"",
   "name=t, a=false",
   "name=t, a=+5",
   "name=t, a='quoted text'"}

ParseTools == {"t", " ", "get_balance"}

ParseSegments ==
  {"",
   ", a=1",
   ", b=x y",
   ", junk",
   ", a=\"7\"",
   ", c =2",
   ", d=TRUE",
   ",h=2",
   ", e=-1.50",
   ", a=x\ny",
   ", f=[1, 2]",
   ", g='none'"}

ParseBodies ==
  ParseExamples
    \cup {"name=" \o t \o a \o b : t \in ParseTools, a \in ParseSegments, b \in ParseSegments}

ApplyParse ==
  /\ fn.n < MaxParseCalls
  /\ \E body \in ParseBodies :
       fn' = [op |-> "_parse_func_call", n |-> fn.n + 1, body |-> body,
              out |-> _parse_func_call(body)]
  /\ UNCHANGED <<balance, balance0, tx, clock, lockedBy, pc, call, user, ncalls, reply>>

NextParse == ApplyParse

SpecParse == Init /\ [][NextParse]_vars

\* ------------------------------------------------------ respond, the reply
\* FUNC_CALL_PATTERN.finditer(text): the text between each `[FUNC_CALL:` and
\* the first `]` after it, the search going on behind that `]`.
StartsWith(s, i, prefix) ==
  /\ i + Len(prefix) - 1 <= Len(s)
  /\ SubSeq(s, i, i + Len(prefix) - 1) = prefix

RECURSIVE FindClose(_, _)
FindClose(s, i) ==
  IF i > Len(s) THEN 0
  ELSE IF Ch(s, i) = "]" THEN i
  ELSE FindClose(s, i + 1)

RECURSIVE FUNC_CALL_PATTERN(_, _)
FUNC_CALL_PATTERN(text, i) ==
  IF i > Len(text) THEN <<>>
  ELSE IF StartsWith(text, i, "[FUNC_CALL:")
  THEN LET close == FindClose(text, i + 11) IN
       IF close = 0 THEN <<>>
       ELSE <<SubSeq(text, i + 11, close - 1)>> \o FUNC_CALL_PATTERN(text, close + 1)
  ELSE FUNC_CALL_PATTERN(text, i + 1)

\* Mutant: only the first marker of the text is taken.
_extract_func_calls_first(text) ==
  LET groups == FUNC_CALL_PATTERN(text, 1)
  IN [i \in 1..(IF groups = <<>> THEN 0 ELSE 1) |-> StrStrip(groups[i])]

_extract_func_calls(text) ==
  LET groups == FUNC_CALL_PATTERN(text, 1)
  IN [i \in 1..Len(groups) |-> StrStrip(groups[i])]

\* "\n".join(results): TypeError when an item is no string.
RECURSIVE JoinLines(_)
JoinLines(results) ==
  IF results = <<>> THEN ""
  ELSE IF Len(results) = 1 THEN results[1].s
  ELSE results[1].s \o "\n" \o JoinLines(Tail(results))

AllStrings(results) == \A i \in 1..Len(results) : results[i].t = "str"

\* What session.call_tool hands back: the content of the result (its texts),
\* or the session fails.
Content(texts) == [kind |-> "content", texts |-> texts]
SessionError(e) == [kind |-> "error", e |-> e]
NotServed == [kind |-> "none"]

ServerResponses ==
  {Content(<<"2.00 KGS">>),
   Content(<<"Error calling tool: InvalidOperation">>),
   Content(<<>>),
   SessionError("Connection closed")}

\* call_mcp_tool as respond sees it: ValueError for a tool the server does
\* not list, else the first text of the content, None when there is none.
McpOutput(tool_name, served) ==
  IF tool_name \notin ServerTools
  THEN Raise("Tool " \o tool_name \o " not found on MCP server")
  ELSE IF served.kind = "error" THEN Raise(served.e)
  ELSE IF served.texts # <<>> THEN [kind |-> "return", value |-> Str(served.texts[1])]
  ELSE [kind |-> "return", value |-> Null]

\* f"[ERROR calling {fc}: {e}]"
ErrorCalling(fc, e) == Str("[ERROR calling " \o fc \o ": " \o e \o "]")

\* The texts the LLM may stream: prose and call markers, in parts.
Prose(s) == [kind |-> "prose", s |-> s]
Marker(s) == [kind |-> "marker", s |-> s]

ReplyParts ==
  {<<Prose("Salam!")>>,
   <<Prose("")>>,
   <<Prose("[func_call: name=get_balance]")>>,
   <<Prose("see [FUNC_CALL: name=get_balance")>>,
   <<Prose("See "), Marker(" name=get_balance"), Prose(" now")>>,
   <<Marker("\nname=get_balance, lang=ru\n")>>,
   <<Prose("A "), Marker(" name=get_balance"), Prose(" B "),
     Marker(" name=transfer_money, to_name=Bo Li, amount=5"), Prose(" C")>>,
   <<Marker(" get_balance"), Marker(" name=get_balance")>>,
   <<Marker(" name=drop_tables"), Prose(" then "), Marker(" name=get_balance, secret=1")>>,
   <<Marker(""), Prose(".")>>}

RECURSIVE RenderText(_)
RenderText(parts) ==
  IF parts = <<>> THEN ""
  ELSE (IF Head(parts).kind = "marker"
        THEN "[FUNC_CALL:" \o Head(parts).s \o "]"
        ELSE Head(parts).s) \o RenderText(Tail(parts))

ReplyTexts == {RenderText(parts) : parts \in ReplyParts}
ReplyUsers == {NoCustomer, 1}
ReplyLanguages == {"", "ru"}

\* The set literal `{full_text}` and the dict with "text" and "func_calls".
SetReply(items) == [shape |-> "set", items |-> items]
DictReply(text, func_calls) == [shape |-> "dict", text |-> text, func_calls |-> func_calls]
NoOut == [shape |-> "none"]

\* respond up to the loop: the text is received and its markers extracted;
\* without markers `{full_text}` is returned.
RespondStart ==
  /\ reply.at \in {"none", "returned", "raised"}
  /\ (IF reply.at = "none" THEN 0 ELSE reply.n) < MaxReplies
  /\ \E full_text \in ReplyTexts, u \in ReplyUsers, language \in ReplyLanguages :
       LET func_calls == _extract_func_calls(full_text)
           n == IF reply.at = "none" THEN 1 ELSE reply.n + 1
       IN reply' = [at |-> IF func_calls = <<>> THEN "returned" ELSE "loop",
                    n |-> n, full_text |-> full_text, user |-> u, language |-> language,
                    func_calls |-> func_calls, results |-> <<>>, calls |-> <<>>,
                    out |-> IF func_calls = <<>> THEN SetReply({full_text}) ELSE NoOut]
  /\ UNCHANGED <<balance, balance0, tx, clock, lockedBy, pc, call, user, ncalls, fn>>

\* One pass of the loop: the marker is parsed, the caller's id and the
\* language are added, the arguments filtered and the tool called; any
\* exception becomes an error text in results.
RespondCall ==
  /\ reply.at = "loop"
  /\ Len(reply.results) < Len(reply.func_calls)
  /\ \E served \in ServerResponses :
       LET fc == reply.func_calls[Len(reply.results) + 1]
           parsed == _parse_func_call(fc)
           withId == IF reply.user # NoCustomer /\ "customer_id" \notin DOMAIN parsed.kwargs
                     THEN parsed.kwargs @@ ("customer_id" :> Int_(reply.user))
                     ELSE parsed.kwargs
           withLang == IF "lang" \notin DOMAIN withId
                       THEN withId @@ ("lang" :> Str(LanguageOrDefault(reply.language)))
                       ELSE withId
           kwargs == filter_tool_args(parsed.name, withLang)
           output == McpOutput(parsed.name, served)
       IN IF ~parsed.ok
          THEN /\ served = Content(<<>>)
               /\ reply' = [reply EXCEPT
                    !.results = Append(@, ErrorCalling(fc, "Bad func_call format: " \o fc)),
                    !.calls = Append(@, [parsed |-> FALSE, served |-> NotServed])]
          ELSE IF parsed.name \notin ServerTools
          THEN /\ served = Content(<<>>)
               /\ reply' = [reply EXCEPT
                    !.results = Append(@, ErrorCalling(fc, output.exc)),
                    !.calls = Append(@, [parsed |-> TRUE, name |-> parsed.name,
                                         kwargs |-> kwargs, served |-> NotServed])]
          ELSE reply' = [reply EXCEPT
                    !.results = Append(@, IF output.kind = "raise"
                                          THEN ErrorCalling(fc, output.exc)
                                          ELSE output.value),
                    !.calls = Append(@, [parsed |-> TRUE, name |-> parsed.name,
                                         kwargs |-> kwargs, served |-> served])]
  /\ UNCHANGED <<balance, balance0, tx, clock, lockedBy, pc, call, user, ncalls, fn>>

\* After the loop: the results are joined into the reply.
RespondReturn ==
  /\ reply.at = "loop"
  /\ Len(reply.results) = Len(reply.func_calls)
  /\ reply' = IF AllStrings(reply.results)
              THEN [reply EXCEPT !.at = "returned",
                      !.out = DictReply(IF reply.results # <<>>
                                        THEN JoinLines(reply.results)
                                        ELSE reply.full_text,
                                        reply.func_calls)]
              ELSE [reply EXCEPT !.at = "raised", !.out = Raise("TypeError")]
  /\ UNCHANGED <<balance, balance0, tx, clock, lockedBy, pc, call, user, ncalls, fn>>

NextReply ==
  \/ RespondStart
  \/ RespondCall
  \/ RespondReturn

SpecReply == Init /\ [][NextReply]_vars

\* Tool calls with language tags the tools know and do not know.
LangCustomerIds == {1, 9}
LangNames == {<<" ", "B", "O", " ", " ", "L", "i">>}
LangAmounts == {Num(5), Num(20)}
LangTags == {"ru", "en"}

NextLang ==
  \E p \in Procs :
    \/ /\ ncalls < MaxLangCalls
       /\ Dispatch(p, LangCustomerIds, LangNames, LangAmounts, LangTags)
    \/ Step(p)

SpecLang == Init /\ [][NextLang]_vars

\* `async with session.begin()` on the session of the tool handler: begin()
\* raises InvalidRequestError when the session has begun a transaction
\* already; the handler's session is closed and the exception leaves the tool.
SessionBegin(p) ==
  /\ pc[p] = "begin"
  /\ IF call[p].session = "begun"
     THEN /\ Finish(p, [call[p] EXCEPT !.result = Raise("InvalidRequestError")])
          /\ UNCHANGED <<balance, balance0, tx, clock, lockedBy, user, ncalls, fn, reply>>
     ELSE BeginTransaction(p)

\* Tool calls one after the other, with the session of each handler.
NextSession ==
  \/ /\ ncalls < MaxSessionCalls
     /\ Dispatch("p1", ArgCustomerIds, ToNames, Amounts, Langs)
  \/ SessionBegin("p1")

SpecSession == Init /\ [][NextSession]_vars

\* -------------------------------------------------------------- read tools
\* Instants are counted in ticks since midnight UTC of day 0; a date is the
\* number of its day.
TicksPerSecond == 2
SecondsPerDay == 86400

\* LOCAL_TZ, Asia/Bishkek: six hours ahead of UTC the whole year.
UtcOffsetSeconds == 21600

\* The account ids of a customer (acc_stmt).
AccIds(customer_id) == {a \in AccountIds : Account(a).customer_id = customer_id}

\* The rows of a table on the given accounts with one of the given types.
RowsOf(rows, acc_ids, types) ==
  {i \in 1..Len(rows) : /\ rows[i].account_id \in acc_ids
                        /\ rows[i].transaction_type \in types}

TransactionTypes == {"deposit", "withdrawal", "transfer", "payment"}

\* ORDER BY created_at DESC LIMIT 1 may return any of the latest rows.
Latest(rows, among) ==
  {i \in among : \A j \in among : rows[j].created_at <= rows[i].created_at}

\* ORDER BY amount DESC LIMIT 1 may return any of the largest rows.
Largest(rows, among) ==
  {i \in among : \A j \in among : rows[j].amount <= rows[i].amount}

\* The orders ORDER BY created_at DESC may return the rows in.
NewestFirst(rows, among) ==
  {order \in [1..Cardinality(among) -> among] :
     /\ \A i, j \in DOMAIN order : i # j => order[i] # order[j]
     /\ \A i, j \in DOMAIN order :
          i < j => rows[order[i]].created_at >= rows[order[j]].created_at}

\* The first place of sub in s at or after i, 0 when there is none.
Find(s, sub, i) ==
  LET places == {j \in i..(Len(s) - Len(sub) + 1) : SubSeq(s, j, j + Len(sub) - 1) = sub}
  IN IF places = {} THEN 0 ELSE CHOOSE j \in places : \A k \in places : j <= k

FromSp == <<"f", "r", "o", "m", " ">>
SpToSp == <<" ", "t", "o", " ">>

\* description.split("from ", 1)[1].split(" to ", 1)[0], when the description
\* holds both "from " and " to "; else no sender.
SenderOf(description) ==
  IF Find(description, FromSp, 1) = 0 \/ Find(description, SpToSp, 1) = 0 THEN <<>>
  ELSE LET after_from == SubSeq(description, Find(description, FromSp, 1) + Len(FromSp),
                                Len(description))
           to == Find(after_from, SpToSp, 1)
       IN IF to = 0 THEN after_from ELSE SubSeq(after_from, 1, to - 1)

\* description.split(" to ", 1)[1], when the description holds " to ".
RecipientOf(description) ==
  LET to == Find(description, SpToSp, 1)
  IN IF to = 0 THEN <<>> ELSE SubSeq(description, to + Len(SpToSp), Len(description))

\* What a read service hands back: (value, message), and whether it sent its
\* transaction query.
ReadReturn(value, msg, tx_queried) ==
  [kind |-> "return", value |-> value, msg |-> msg, tx_queried |-> tx_queried]
None == [t |-> "none"]
NoMsg == [lang |-> "", key |-> "", args |-> <<>>]
NoAccounts(lang) == ReadReturn(None, _t(lang, "no_accounts", <<>>), FALSE)

\* "<-" for a deposit, "->" for every other type.
Direction(type) == IF type = "deposit" THEN "<-" ELSE "->"

get_accounts_info(customer_id, lang) ==
  IF AccIds(customer_id) = {} THEN NoAccounts(lang)
  ELSE ReadReturn([t |-> "accounts", ids |-> AccIds(customer_id)], NoMsg, FALSE)

\* The latest `limit` rows on the customer's accounts, newest first.
get_transactions(rows, customer_id, limit, lang, order) ==
  IF AccIds(customer_id) = {} THEN NoAccounts(lang)
  ELSE IF order = <<>> \/ limit = 0
  THEN ReadReturn([t |-> "rows", rows |-> <<>>], _t(lang, "no_transactions", <<>>), TRUE)
  ELSE ReadReturn([t |-> "rows",
                   rows |-> [i \in 1..(IF limit < Len(order) THEN limit ELSE Len(order)) |->
                               [type |-> rows[order[i]].transaction_type,
                                amount |-> rows[order[i]].amount,
                                direction |-> Direction(rows[order[i]].transaction_type)]]],
                  NoMsg, TRUE)

\* The row found is the latest deposit or transfer row on the customer's
\* accounts (row = 0: none).
get_last_incoming_transaction(rows, customer_id, lang, row) ==
  IF AccIds(customer_id) = {} THEN NoAccounts(lang)
  ELSE IF row = 0 THEN ReadReturn(None, _t(lang, "last_incoming_none", <<>>), TRUE)
  ELSE LET sender == SenderOf(rows[row].description)
       IN ReadReturn(None,
            _t(lang, "incoming_last",
               <<IF sender = <<>> THEN ToolText(lang, "unknown_sender") ELSE sender,
                 rows[row].amount, rows[row].created_at>>), TRUE) @@ [row |-> row]

\* Local midnight of the start date and the last whole second of the end
\* date, as UTC instants.
start_dt(start_date) == (start_date * SecondsPerDay - UtcOffsetSeconds) * TicksPerSecond
end_dt(end_date) ==
  ((end_date + 1) * SecondsPerDay - 1 - UtcOffsetSeconds) * TicksPerSecond

InPeriod(rows, customer_id, types, start_date, end_date) ==
  {i \in RowsOf(rows, AccIds(customer_id), types) :
     /\ rows[i].created_at >= start_dt(start_date)
     /\ rows[i].created_at <= end_dt(end_date)}

SumAmounts(rows, among) ==
  LET RECURSIVE go(_)
      go(T) == IF T = {} THEN 0
               ELSE LET x == CHOOSE y \in T : TRUE IN rows[x].amount + go(T \ {x})
  IN go(among)

get_incoming_sum_for_period(rows, customer_id, start_date, end_date, lang) ==
  IF AccIds(customer_id) = {} THEN NoAccounts(lang)
  ELSE LET total == SumAmounts(rows, InPeriod(rows, customer_id, {"deposit", "transfer"},
                                               start_date, end_date))
       IN ReadReturn([t |-> "sum", total |-> total],
                     _t(lang, "period_in", <<start_date, end_date, total>>), TRUE)

get_outgoing_sum_for_period(rows, customer_id, start_date, end_date, lang) ==
  IF AccIds(customer_id) = {} THEN NoAccounts(lang)
  ELSE LET total == SumAmounts(rows, InPeriod(rows, customer_id,
                                               {"withdrawal", "transfer", "payment"},
                                               start_date, end_date))
       IN ReadReturn([t |-> "sum", total |-> total],
                     _t(lang, "period_out", <<start_date, end_date, total>>), TRUE)

\* The recipients named by the latest transfer rows (order: at most ten,
\* newest first), up to three.
get_last_3_transfer_recipients(rows, customer_id, lang, order) ==
  IF AccIds(customer_id) = {} THEN NoAccounts(lang)
  ELSE LET txs == SubSeq(order, 1, IF Len(order) < 10 THEN Len(order) ELSE 10)
           recs == [i \in 1..Len(txs) |-> RecipientOf(rows[txs[i]].description)]
           named == SelectSeq(recs, LAMBDA rec : rec # <<>>)
       IN ReadReturn([t |-> "names",
                      names |-> SubSeq(named, 1, IF Len(named) < 3 THEN Len(named) ELSE 3)],
                     NoMsg, TRUE)

\* Mutant: the largest row is looked up without the test for accounts.
get_largest_transaction_unchecked(rows, customer_id, lang, row) ==
  IF row = 0 THEN ReadReturn(None, _t(lang, "no_transactions", <<>>), TRUE)
  ELSE ReadReturn([t |-> "row", amount |-> rows[row].amount,
                   direction |-> Direction(rows[row].transaction_type),
                   type |-> rows[row].transaction_type], NoMsg, TRUE)

get_largest_transaction(rows, customer_id, lang, row) ==
  IF AccIds(customer_id) = {} THEN NoAccounts(lang)
  ELSE IF row = 0 THEN ReadReturn(None, _t(lang, "no_transactions", <<>>), TRUE)
  ELSE ReadReturn([t |-> "row", amount |-> rows[row].amount,
                   direction |-> Direction(rows[row].transaction_type),
                   type |-> rows[row].transaction_type], NoMsg, TRUE)

\* The text a handler returns from what its service handed back: the message
\* when there is one, the text for an empty value, else a title and lines.
Listing(title, value) == [kind |-> "text", msg |-> title, value |-> value]

IsEmpty(value) ==
  \/ value.t = "none"
  \/ value.t = "rows" /\ value.rows = <<>>
  \/ value.t = "names" /\ value.names = <<>>
  \/ value.t = "accounts" /\ value.ids = {}

ToolOutput(lang, ret, empty_key, title_key) ==
  IF ret.msg # NoMsg THEN ToolReturn(ret.msg)
  ELSE IF IsEmpty(ret.value) THEN ToolReturn(ToolText(lang, empty_key))
  ELSE Listing(ToolText(lang, title_key), ret.value)

NotCalled == [kind |-> "none"]

\* A read tool handler, called while no transfer is running: the customer is
\* loaded, the service called and its outcome rendered; nothing is written.
ReadTool(op, customer_id, lang, args, ret, out) ==
  /\ fn.n < MaxReads
  /\ \A p \in Procs : ~InFlight(p)
  /\ fn' = [op |-> op, n |-> fn.n + 1, customer_id |-> customer_id, lang |-> lang,
            args |-> args,
            ret |-> IF customer_id \in CustomerIds THEN ret ELSE NotCalled,
            out |-> IF customer_id \in CustomerIds THEN out
                    ELSE ToolReturn(ToolText(lang, "customer_not_found"))]
  /\ UNCHANGED <<balance, balance0, tx, clock, lockedBy, pc, call, user, ncalls, reply>>

ReadCustomerIds == {1, 2, 4, 9}
ReadLangs == {"en"}
ReadLimits == {1, 5}
ReadDates == {0, 1}

get_accounts_info_tool ==
  \E customer_id \in ReadCustomerIds, lang \in ReadLangs :
    LET ret == get_accounts_info(customer_id, lang)
    IN ReadTool("get_accounts_info", customer_id, lang, <<>>, ret,
                ToolOutput(lang, ret, "accounts_none", "accounts_title"))

get_transactions_tool ==
  \E customer_id \in ReadCustomerIds, lang \in ReadLangs, limit \in ReadLimits :
    \E order \in NewestFirst(tx, RowsOf(tx, AccIds(customer_id), TransactionTypes)) :
      LET ret == get_transactions(tx, customer_id, limit, lang, order)
      IN ReadTool("get_transactions", customer_id, lang, <<limit>>, ret,
                  ToolOutput(lang, ret, "transactions_none", "transactions_title"))

get_last_incoming_transaction_tool ==
  \E customer_id \in ReadCustomerIds, lang \in ReadLangs :
    LET found == Latest(tx, RowsOf(tx, AccIds(customer_id), {"deposit", "transfer"}))
    IN \E row \in (IF found = {} THEN {0} ELSE found) :
         LET ret == get_last_incoming_transaction(tx, customer_id, lang, row)
         IN ReadTool("get_last_incoming_transaction", customer_id, lang, <<>>, ret,
                     ToolReturn(ret.msg))

get_incoming_sum_for_period_tool ==
  \E customer_id \in ReadCustomerIds, lang \in ReadLangs,
     start_date \in ReadDates, end_date \in ReadDates :
    LET ret == get_incoming_sum_for_period(tx, customer_id, start_date, end_date, lang)
    IN ReadTool("get_incoming_sum_for_period", customer_id, lang,
                <<start_date, end_date>>, ret, ToolReturn(ret.msg))

get_outgoing_sum_for_period_tool ==
  \E customer_id \in ReadCustomerIds, lang \in ReadLangs,
     start_date \in ReadDates, end_date \in ReadDates :
    LET ret == get_outgoing_sum_for_period(tx, customer_id, start_date, end_date, lang)
    IN ReadTool("get_outgoing_sum_for_period", customer_id, lang,
                <<start_date, end_date>>, ret, ToolReturn(ret.msg))

get_last_3_transfer_recipients_tool ==
  \E customer_id \in ReadCustomerIds, lang \in ReadLangs :
    \E order \in NewestFirst(tx, RowsOf(tx, AccIds(customer_id), {"transfer"})) :
      LET ret == get_last_3_transfer_recipients(tx, customer_id, lang, order)
      IN ReadTool("get_last_3_transfer_recipients", customer_id, lang, <<>>, ret,
                  ToolOutput(lang, ret, "recipients_none", "recipients_title"))

get_largest_transaction_tool ==
  \E customer_id \in ReadCustomerIds, lang \in ReadLangs :
    LET found == Largest(tx, RowsOf(tx, AccIds(customer_id), TransactionTypes))
    IN \E row \in (IF found = {} THEN {0} ELSE found) :
         LET ret == get_largest_transaction(tx, customer_id, lang, row)
         IN ReadTool("get_largest_transaction", customer_id, lang, <<>>, ret,
                     ToolOutput(lang, ret, "transactions_none", "largest_title"))

\* Rows the table holds before the first call: a payment and a deposit of
\* day 0, the deposit in the last second of the day, local time, and a
\* deposit at the first instant of day 1.
SeedRow(account_id, type, amount, created_at) ==
  [account_id |-> account_id, transaction_type |-> type, amount |-> amount,
   currency |-> Account(account_id).currency, description |-> <<"s", "e", "e", "d">>,
   status |-> "completed", created_at |-> created_at]

SeedTables ==
  {<<>>,
   <<SeedRow(1, "payment", 3, end_dt(0) - 10),
     SeedRow(1, "deposit", 4, end_dt(0)),
     SeedRow(3, "deposit", 5, end_dt(0) + 1),
     SeedRow(3, "deposit", 6, start_dt(1))>>}

InitRead ==
  /\ balance0 \in InitialLedgers
  /\ balance = balance0
  /\ tx \in SeedTables
  /\ clock = start_dt(1)
  /\ lockedBy = [a \in AccountIds |-> NoProc]
  /\ pc = [p \in Procs |-> "idle"]
  /\ call = [p \in Procs |-> NoCall]
  /\ user = [p \in Procs |-> NoCustomer]
  /\ ncalls = 0
  /\ fn = NoFn
  /\ reply = NoReply

ReadNames == {<<" ", "B", "O", " ", " ", "L", "i">>, <<"a", "l", " ", "u", "u">>}
ReadAmounts == {Num(5)}
LedgerCustomerIds == {1, 2, 4}

\* Transfers and get_balance calls one after the other, and then the read
\* tools on the ledger they left.
NextRead ==
  \/ /\ ncalls < MaxReadTransfers
     /\ fn = NoFn
     /\ Dispatch("p1", LedgerCustomerIds, ReadNames, ReadAmounts, ConcurrentLangs)
  \/ Step("p1")
  \/ get_accounts_info_tool
  \/ get_transactions_tool
  \/ get_last_incoming_transaction_tool
  \/ get_incoming_sum_for_period_tool
  \/ get_outgoing_sum_for_period_tool
  \/ get_last_3_transfer_recipients_tool
  \/ get_largest_transaction_tool

SpecRead == InitRead /\ [][NextRead]_vars

\* ------------------------------------------ markers with bracketed values
\* _extract_func_calls and then _parse_func_call, as respond applies them,
\* on a response that holds a marker whose value may be a JSON array.
ExtractTools == {"t", "compare_cards"}
ExtractKeys == {"a", "card_names"}
ExtractValues == {"[1, 2]", "[7]", "[]", "{}", "7", "x"}
ExtractBefore == {"", "ok ", "[x] "}
ExtractAfter == {"", " bye", "\n[FUNC_CALL:name=u]"}

MarkerOf(c) == "[FUNC_CALL:name=" \o c.name \o ", " \o c.key \o "=" \o c.value \o "]"

ApplyExtract ==
  /\ fn.n < MaxExtractCalls
  /\ \E name \in ExtractTools, key \in ExtractKeys, value \in ExtractValues,
        before \in ExtractBefore, after \in ExtractAfter :
       LET marker == [name |-> name, key |-> key, value |-> value]
           text == before \o MarkerOf(marker) \o after
           func_calls == _extract_func_calls(text)
       IN fn' = [op |-> "_extract_func_calls", n |-> fn.n + 1, text |-> text,
                 marker |-> marker, func_calls |-> func_calls,
                 calls |-> [i \in 1..Len(func_calls) |-> _parse_func_call(func_calls[i])]]
  /\ UNCHANGED <<balance, balance0, tx, clock, lockedBy, pc, call, user, ncalls, reply>>

NextExtract == ApplyExtract

SpecExtract == Init /\ [][NextExtract]_vars

\* --------------------------------------------- descriptions and their names
\* The two rows a transfer writes when the sender's full name is from_name and
\* the recipient's is to_name, read back by the two tools that take names out
\* of the description.
NameFirsts == {<<"A", "l">>, <<"B", "o">>, <<"C", "y">>, <<"D", "i">>}
NameLasts == {<<"U", "u">>, <<"L", "i">>, <<"t", "o", " ", "V", "u">>}
FullNames == {JoinSp(<<first_name, last_name>>) :
                first_name \in NameFirsts, last_name \in NameLasts}

TransferRows(from_name, to_name) ==
  << [SeedRow(1, "transfer", 1, 0) EXCEPT !.description = desc(from_name, to_name)],
     [SeedRow(3, "deposit", 1, 0) EXCEPT !.description = desc(from_name, to_name)] >>

ApplyDescription ==
  /\ fn.n < MaxDescriptions
  /\ \E from_name \in FullNames, to_name \in FullNames, lang \in ReadLangs :
       /\ from_name # to_name
       /\ LET rows == TransferRows(from_name, to_name)
          IN fn' = [op |-> "description", n |-> fn.n + 1,
                    from_name |-> from_name, to_name |-> to_name,
                    recipients |-> get_last_3_transfer_recipients(rows, 1, lang, <<1>>),
                    incoming |-> get_last_incoming_transaction(rows, 2, lang, 2)]
  /\ UNCHANGED <<balance, balance0, tx, clock, lockedBy, pc, call, user, ncalls, reply>>

NextNames == ApplyDescription

SpecNames == Init /\ [][NextNames]_vars

\* ------------------------------------------------------------------ claims
Succeeded(r) == r.kind = "return" /\ r.ok
Refused(r, lang, key) == r = Return(FALSE, _t(lang, key, <<>>))
IsTransfer(p) == call[p].tool = "transfer_money"

\* C1: every successful transfer_money call leaves the sum of the two balances
\* as it was (as read under the locks and as committed just before), and appends
\* exactly two rows, a transfer row on the source account and a deposit row on
\* the destination account, both with the rounded amount, the currency, one
\* description and one timestamp.
SuccessfulTransferIsNeutral ==
  [][\A p \in Procs :
       (pc[p] = "commit" /\ pc'[p] = "done" /\ Succeeded(call'[p].result)) =>
         LET c == call[p]
             new == SubSeq(tx', Len(tx) + 1, Len(tx'))
             amount == RoundHalfUp(c.amount.mills)
         IN /\ balance'[c.from_acc] + balance'[c.to_acc]
                 = balance[c.from_acc] + balance[c.to_acc]
            /\ balance'[c.from_acc] + balance'[c.to_acc] = c.from_balance + c.to_balance
            /\ balance[c.from_acc] - balance'[c.from_acc] = amount
            /\ \A a \in AccountIds \ {c.from_acc, c.to_acc} : balance'[a] = balance[a]
            /\ SubSeq(tx', 1, Len(tx)) = tx
            /\ Len(new) = 2
            /\ \E i, j \in 1..2 :
                 /\ i # j
                 /\ new[i].transaction_type = "transfer" /\ new[i].account_id = c.from_acc
                 /\ new[j].transaction_type = "deposit" /\ new[j].account_id = c.to_acc
            /\ \A i \in 1..2 : new[i].amount = amount /\ new[i].currency = c.currency
            /\ new[1].description = new[2].description
            /\ new[1].created_at = new[2].created_at
    ]_vars

TransferCommitted ==
  \E p \in Procs : pc[p] = "done" /\ IsTransfer(p) /\ Succeeded(call[p].result) /\ Len(tx) >= 2

\* C2: in every reachable state the balances of each currency add up to what
\* they added up to at the start.
TotalIn(bal, currency) == Sum(bal, {a \in AccountIds : Account(a).currency = currency})

MoneyIsConserved ==
  \A currency \in Currencies : TotalIn(balance, currency) = TotalIn(balance0, currency)

ConcurrentSuccessAndFailure ==
  \E p, q \in Procs :
    /\ p # q /\ pc[p] = "done" /\ pc[q] = "done"
    /\ call[p].overlapped /\ call[q].overlapped
    /\ Succeeded(call[p].result)
    /\ Refused(call[q].result, call[q].lang, "not_enough")

\* C3: balances that start non-negative stay non-negative.
BalancesStayNonNegative ==
  (\A a \in AccountIds : balance0[a] >= 0) => (\A a \in AccountIds : balance[a] >= 0)

AccountEmptiedThenRefused ==
  \E p, q \in Procs :
    /\ p # q /\ pc[p] = "done" /\ pc[q] = "done"
    /\ Succeeded(call[p].result)
    /\ balance[call[p].from_acc] = 0
    /\ call[q].from_acc = call[p].from_acc
    /\ Refused(call[q].result, call[q].lang, "not_enough")

\* C4: two concurrent transfers from one source account, each affordable alone
\* but not together: one succeeds, the other is refused with not_enough, and
\* the source is debited once.
SameSourceRace(p, q) ==
  /\ p # q /\ ncalls = 2
  /\ pc[p] = "done" /\ pc[q] = "done" /\ IsTransfer(p) /\ IsTransfer(q)
  /\ call[p].overlapped /\ call[q].overlapped
  /\ call[p].result.kind = "return" /\ call[q].result.kind = "return"
  /\ call[p].from_acc # NoAccount /\ call[p].from_acc = call[q].from_acc
  /\ call[p].to_acc # NoAccount /\ call[q].to_acc # NoAccount
  /\ call[p].amt <= balance0[call[p].from_acc]
  /\ call[q].amt <= balance0[call[p].from_acc]
  /\ call[p].amt + call[q].amt > balance0[call[p].from_acc]

NoLockCycle ==
  ~ \E p, q \in Procs :
      /\ p # q /\ pc[p] = "lock_to" /\ pc[q] = "lock_to"
      /\ call[p].to_acc # NoAccount /\ call[q].to_acc # NoAccount
      /\ lockedBy[call[p].to_acc] = q /\ lockedBy[call[q].to_acc] = p

\* C6: in every state each balance is the initial balance plus the deposit rows
\* minus the transfer rows of the account, and a call that fails or is
\* cancelled inside the block leaves balances and rows as they were.
RowSum(a, type) ==
  LET RECURSIVE go(_)
      go(i) == IF i = 0 THEN 0
               ELSE go(i - 1) + (IF tx[i].account_id = a /\ tx[i].transaction_type = type
                                 THEN tx[i].amount ELSE 0)
  IN go(Len(tx))

LedgerMatchesRows ==
  \A a \in AccountIds :
    balance[a] = balance0[a] + RowSum(a, "deposit") - RowSum(a, "transfer")

FailureLeavesLedger ==
  \A p \in Procs :
    (pc[p] \in {"lock_from", "lock_to", "commit"} /\ pc'[p] = "done"
       /\ ~Succeeded(call'[p].result))
    => (balance' = balance /\ tx' = tx)

WritesAreAtomic == [](LedgerMatchesRows) /\ [][FailureLeavesLedger]_vars

StagedTransferRolledBack ==
  \E p \in Procs :
    /\ pc[p] = "done" /\ call[p].result = Raise("rollback")
    /\ call[p].staged = "ok_transfer"

BadAmount(amount) == amount.kind # "num" \/ amount.mills <= 0

BadAmountFailsWithMessage ==
  \A p \in Procs :
    (/\ pc[p] = "done" /\ IsTransfer(p) /\ call[p].customer_id \in CustomerIds
     /\ BadAmount(call[p].amount))
    => /\ call[p].result.kind = "return"
       /\ ~call[p].result.ok
       /\ call[p].result.msg.key \in {"wrong_amount", "need_amount"}
       /\ ncalls = 1 => (balance = balance0 /\ tx = <<>>)

\* C9: a transfer whose recipient name denotes the caller fails with
\* cannot_self, whatever the amount.
NameDenotes(name, c) ==
  JoinSp(SplitWs(Lower(Strip(name)), <<>>)) = Lower(_full_name(c))

SelfTransferRefusedForAnyAmount ==
  \A p \in Procs :
    (/\ pc[p] = "done" /\ IsTransfer(p) /\ call[p].customer_id \in CustomerIds
     /\ NameDenotes(call[p].to_name, call[p].customer_id))
    => Refused(call[p].result, call[p].lang, "cannot_self")

\* C9 as amended: ... when the amount is a number that rounds to more than zero.
SelfTransferRefusedForPositiveAmount ==
  \A p \in Procs :
    (/\ pc[p] = "done" /\ IsTransfer(p) /\ call[p].customer_id \in CustomerIds
     /\ NameDenotes(call[p].to_name, call[p].customer_id)
     /\ call[p].amount.kind = "num" /\ RoundHalfUp(call[p].amount.mills) > 0)
    => Refused(call[p].result, call[p].lang, "cannot_self")

SelfTransferRefused ==
  \E p \in Procs :
    /\ pc[p] = "done" /\ IsTransfer(p) /\ call[p].customer_id \in CustomerIds
    /\ NameDenotes(call[p].to_name, call[p].customer_id)
    /\ call[p].to_name # _full_name(call[p].customer_id)
    /\ Refused(call[p].result, call[p].lang, "cannot_self")

\* C10: every tool call respond dispatches for an authenticated user reaches
\* its handler with that user's id as customer_id.
HandlerRunsForCaller ==
  \A p \in Procs :
    (/\ pc[p] # "idle" /\ user[p] # NoCustomer
     /\ call[p].tool \in ServerTools /\ call[p].customer_id # NoCustomer)
    => call[p].customer_id = user[p]

\* C11: filter_tool_args returns exactly the entries of args whose key is in
\* the allow-list of the tool, values unchanged, and nothing for a tool that
\* has no allow-list.
AllowList(name) ==
  CASE name = "get_balance" -> {"customer_id", "lang"}
    [] name = "get_transactions" -> {"customer_id", "limit", "lang"}
    [] name = "transfer_money" -> {"customer_id", "to_name", "amount", "currency", "lang"}
    [] name = "get_card_details" -> {"card_name"}
    [] OTHER -> {}

GrammarPairs ==
  {[k |-> "a", v |-> "1"], [k |-> "b", v |-> "x y"], [k |-> "a", v |-> "\"7\""],
   [k |-> "d", v |-> "TRUE"], [k |-> "e", v |-> "-1.50"], [k |-> "a", v |-> "x\ny"],
   [k |-> "f", v |-> "[1, 2]"], [k |-> "g", v |-> "'none'"]}

GrammarCalls ==
  {[name |-> t, pairs |-> ps] :
     t \in {"t", "get_balance"},
     ps \in {<<>>} \cup {<<pair>> : pair \in GrammarPairs}
              \cup {two \in GrammarPairs \X GrammarPairs : two[1].k # two[2].k}}
    \cup {[name |-> "get_balance",
           pairs |-> <<[k |-> "customer_id", v |-> "7"], [k |-> "lang", v |-> "ky"]>>],
          [name |-> "transfer_money",
           pairs |-> <<[k |-> "to_name", v |-> "Aigerim Sadykova"],
                       [k |-> "amount", v |-> "150.5"], [k |-> "currency", v |-> "USD"]>>]}

RECURSIVE RenderPairs(_)
RenderPairs(pairs) ==
  IF pairs = <<>> THEN ""
  ELSE ", " \o pairs[1].k \o "=" \o pairs[1].v \o RenderPairs(Tail(pairs))

Render(c) == "name=" \o c.name \o RenderPairs(c.pairs)

\* The coercion of a value as specified: the first rule that matches, in the
\* order boolean, null, integer, decimal, JSON; a value that matches none is
\* a string, and only then are its quotes taken off.
Unquoted(s) ==
  IF /\ Len(s) >= 2
     /\ \/ Ch(s, 1) = "\"" /\ Ch(s, Len(s)) = "\""
        \/ Ch(s, 1) = "'" /\ Ch(s, Len(s)) = "'"
  THEN SubSeq(s, 2, Len(s) - 1) ELSE s

Coercion(v) ==
  LET s == StrStrip(v)
      low == StrLower(s)
  IN IF low = "true" THEN Bool(TRUE)
     ELSE IF low = "false" THEN Bool(FALSE)
     ELSE IF low \in {"null", "none"} THEN Null
     ELSE IF IsInteger(s) THEN Int_(int(s))
     ELSE IF IsDecimal(s) THEN float(s)
     ELSE IF Bracketed(s) /\ json_loads(s).ok THEN json_loads(s).v
     ELSE Str(Unquoted(s))

SameValue(a, b) == a.t = b.t /\ a = b

Parsed == fn.op = "_parse_func_call"

\* C15: the body of a call of the grammar parses to its tool name and to
\* exactly its keys, each bound to the coercion of its value; so do the two
\* examples of the specification.
GrammarCallParses ==
  \A c \in GrammarCalls :
    (Parsed /\ fn.body = Render(c)) =>
      /\ fn.out.ok
      /\ fn.out.name = c.name
      /\ DOMAIN fn.out.kwargs = {c.pairs[i].k : i \in 1..Len(c.pairs)}
      /\ \A i \in 1..Len(c.pairs) :
           SameValue(fn.out.kwargs[c.pairs[i].k], Coercion(c.pairs[i].v))

\* C15, the two examples alone.
ExamplesParse ==
  /\ (Parsed /\ fn.body = "name=get_balance, customer_id=7, lang=ky") =>
       /\ fn.out.ok /\ fn.out.name = "get_balance"
       /\ DOMAIN fn.out.kwargs = {"customer_id", "lang"}
       /\ SameValue(fn.out.kwargs["customer_id"], Int_(7))
       /\ SameValue(fn.out.kwargs["lang"], Str("ky"))
  /\ (Parsed /\ fn.body = "name=transfer_money, to_name=Aigerim Sadykova, amount=150.5, currency=USD") =>
       /\ fn.out.ok /\ fn.out.name = "transfer_money"
       /\ DOMAIN fn.out.kwargs = {"to_name", "amount", "currency"}
       /\ SameValue(fn.out.kwargs["to_name"], Str("Aigerim Sadykova"))
       /\ SameValue(fn.out.kwargs["amount"], Float(1505, 1))
       /\ SameValue(fn.out.kwargs["currency"], Str("USD"))

\* C16: every value that reaches the result is the coercion of its text by
\* the rules in their order, quotes being taken off a string only.
ValuesAreCoercedInOrder ==
  \A c \in GrammarCalls :
    (Parsed /\ fn.body = Render(c) /\ fn.out.ok) =>
      \A i \in 1..Len(c.pairs) :
        c.pairs[i].k \in DOMAIN fn.out.kwargs =>
          SameValue(fn.out.kwargs[c.pairs[i].k], Coercion(c.pairs[i].v))

\* C17: a body that is not of the grammar is refused: one that does not start
\* with name=, one whose tool name is empty, one whose text after the tool name
\* does not start an argument key=value.
Conforms(body) ==
  LET s == StrStrip(body)
      comma == FindComma(s, 6)
      tool == StrStrip(IF comma = 0 THEN From(s, 6) ELSE SubSeq(s, 6, comma - 1))
  IN /\ Len(s) >= 5
     /\ SubSeq(s, 1, 5) = "name="
     /\ tool # ""
     /\ comma # 0 =>
          LET ks == SkipWs(s, comma + 1)
              ke == SkipWord(s, ks)
          IN ke > ks /\ ke < Len(s) /\ Ch(s, ke) = "="

MalformedBodyIsRefused ==
  (Parsed /\ ~Conforms(fn.body)) => ~fn.out.ok

\* The marker bodies of a text given in parts, in order of appearance.
Markers(parts) == SelectSeq(parts, LAMBDA part : part.kind = "marker")

\* The result of dispatching one marker, given what the server handed back.
ResultOfDispatch(body, served) ==
  LET fc == StrStrip(body)
      parsed == _parse_func_call(fc)
  IN IF ~parsed.ok THEN ErrorCalling(fc, "Bad func_call format: " \o fc)
     ELSE LET output == McpOutput(parsed.name, served)
          IN IF output.kind = "raise" THEN ErrorCalling(fc, output.exc) ELSE output.value

\* The lines of a text: the pieces between its line breaks.
LineBreaks(s) == {i \in 1..Len(s) : Ch(s, i) = "\n"}

Lines(s) ==
  LET breaks == LineBreaks(s)
      n == Cardinality(breaks)
      at(k) == CHOOSE i \in breaks : Cardinality({j \in breaks : j < i}) = k - 1
  IN [k \in 1..(n + 1) |->
        SubSeq(s, IF k = 1 THEN 1 ELSE at(k - 1) + 1,
                  IF k = n + 1 THEN Len(s) ELSE at(k) - 1)]

RECURSIVE Flatten(_)
Flatten(seqs) == IF seqs = <<>> THEN <<>> ELSE Head(seqs) \o Flatten(Tail(seqs))

Assembled == reply.at = "returned" /\ reply.func_calls # <<>>

NoMarkerReplyIsTheText ==
  (reply.at \in {"returned", "raised"} /\ reply.func_calls = <<>>) =>
    /\ reply.at = "returned"
    /\ reply.out.shape = "dict"
    /\ reply.out.text = reply.full_text
    /\ reply.calls = <<>>

Contains(s, sub) ==
  \E i \in 1..(Len(s) - Len(sub) + 1) : SubSeq(s, i, i + Len(sub) - 1) = sub

HandlerError == Content(<<"Error calling tool: InvalidOperation">>)

\* The i-th call of the response failed: the marker did not parse, the tool
\* is unknown, the session or the handler raised, or nothing came back.
CallFailed(i) ==
  LET c == reply.calls[i] IN
  \/ ~c.parsed
  \/ c.served.kind \in {"none", "error"}
  \/ c.served.kind = "content" /\ (c.served.texts = <<>> \/ c.served = HandlerError)

FailureReason(i) ==
  LET c == reply.calls[i] IN
  IF ~c.parsed THEN "Bad func_call format"
  ELSE IF c.served.kind = "none" THEN "not found on MCP server"
  ELSE IF c.served.kind = "error" THEN c.served.e
  ELSE IF c.served = HandlerError THEN "InvalidOperation"
  ELSE ""

\* C14: for a text with n >= 1 markers, whatever the outcome of each call,
\* respond returns; every marker is dispatched, also after a failed one, and
\* each failed call stands in the reply as an error text holding the call
\* text and the reason of the failure.
FailedCallsAreInlineErrors ==
  (reply.at \in {"returned", "raised"} /\ reply.func_calls # <<>>) =>
    /\ reply.at = "returned"
    /\ Len(reply.calls) = Len(reply.func_calls)
    /\ \A i \in 1..Len(reply.calls) :
         CallFailed(i) =>
           /\ reply.results[i].t = "str"
           /\ Contains(reply.results[i].s, "[ERROR calling " \o reply.func_calls[i])
           /\ Contains(reply.results[i].s, FailureReason(i))
           /\ Contains(reply.out.text, reply.results[i].s)

SupportedLangs == {"ky", "ru"}

\* A finished call whose language tag is none of the supported ones.
UnknownTagCall(p) ==
  /\ pc[p] = "done"
  /\ call[p].tool # "none"
  /\ call[p].lang \notin SupportedLangs

\* C18: there is one default language such that every tool call with a
\* language tag other than "ky" and "ru" returns, without failing, its
\* message in that language, whether the message is built by the service or
\* by the tool handler.
UnknownTagFallsBackToOneLanguage ==
  \E d \in SupportedLangs :
    \A p \in Procs :
      UnknownTagCall(p) =>
        /\ call[p].result.kind \in {"text", "return"}
        /\ call[p].result.msg.lang = d

CurrencyAccounts(customer_id, currency) ==
  {a \in AccountIds : /\ Account(a).customer_id = customer_id
                      /\ Account(a).currency = currency}

\* Both sides of the call hold an account in the currency, and on one side
\* none of them is active.
InactiveSide(c) ==
  /\ c.tool = "transfer_money"
  /\ c.to_customer \notin {NoCustomer, c.customer_id}
  /\ \A side \in {c.customer_id, c.to_customer} : CurrencyAccounts(side, c.currency) # {}
  /\ \E side \in {c.customer_id, c.to_customer} :
       \A a \in CurrencyAccounts(side, c.currency) : Account(a).status # "active"

ReturnsFromBlock(p) ==
  /\ pc[p] = "commit" /\ pc'[p] = "done"
  /\ call'[p].result.kind = "return"

TransferCanSucceed(c) ==
  /\ c.tool = "transfer_money"
  /\ c.customer_id \in CustomerIds
  /\ c.amount.kind = "num" /\ c.amt > 0
  /\ c.to_customer \notin {NoCustomer, c.customer_id}
  /\ ActiveAccounts(c.customer_id, c.currency) # {}
  /\ ActiveAccounts(c.to_customer, c.currency) # {}
  /\ \A a \in ActiveAccounts(c.customer_id, c.currency) : balance[a] >= c.amt

\* C20: a transfer invoked through transfer_money_tool that meets every
\* condition of success, with no other transfer running, ends with
\* (True, ok_transfer) and its two transaction rows in the store.
ValidTransferSucceeds ==
  \A p \in Procs :
    (pc[p] = "done" /\ TransferCanSucceed(call[p])) =>
      /\ Succeeded(call[p].result)
      /\ Len(tx) >= 2

NearestCent(mills) ==
  CHOOSE n \in -10..10 :
    IF mills >= 0 THEN 10 * n - 5 <= mills /\ mills < 10 * n + 5
    ELSE 10 * n - 5 < mills /\ mills <= 10 * n + 5

ReadTools ==
  {"get_accounts_info", "get_transactions", "get_last_incoming_transaction",
   "get_incoming_sum_for_period", "get_outgoing_sum_for_period",
   "get_last_3_transfer_recipients", "get_largest_transaction"}

\* A read tool has been called for an existing customer.
ReadDone == fn.op \in ReadTools /\ fn.customer_id \in CustomerIds

\* C23: in every step the rows the table held stay as they were, in their
\* places; a step that changes a balance or adds a row is the commit of a
\* successful transfer_money, and no call of a read tool or of get_balance
\* changes a balance or the table.
LedgerIsAppendOnly ==
  [][/\ Len(tx') >= Len(tx)
     /\ SubSeq(tx', 1, Len(tx)) = tx
     /\ (balance' # balance \/ tx' # tx) =>
          \E p \in Procs : /\ pc[p] = "commit" /\ pc'[p] = "done"
                           /\ call[p].tool = "transfer_money"
                           /\ Succeeded(call'[p].result)
     /\ fn' # fn => (balance' = balance /\ tx' = tx)
    ]_vars

\* Witness of C23: the read tools were called on a table that holds the rows
\* it started with and the rows of a transfer.
ReadAfterTransfer ==
  /\ ReadDone
  /\ fn.op = "get_transactions"
  /\ Len(tx) = 6
  /\ \E p \in Procs : pc[p] = "done" /\ IsTransfer(p) /\ Succeeded(call[p].result)

\* C24: a transfer row counts as outgoing and never as incoming: the incoming
\* sum is the sum of the deposit rows of the period, the outgoing sum the sum
\* of its withdrawal, payment and transfer rows, and the row reported as the
\* last incoming one is a deposit row.
TransferRowsAreOutgoing ==
  ReadDone =>
    LET total(types) == SumAmounts(tx, InPeriod(tx, fn.customer_id, types,
                                                fn.args[1], fn.args[2]))
    IN
    /\ (fn.op = "get_incoming_sum_for_period" /\ fn.ret.value.t = "sum") =>
         fn.ret.value.total = total({"deposit"})
    /\ (fn.op = "get_outgoing_sum_for_period" /\ fn.ret.value.t = "sum") =>
         fn.ret.value.total = total({"withdrawal", "payment", "transfer"})
    /\ (fn.op = "get_last_incoming_transaction" /\ fn.ret.msg.key = "incoming_last") =>
         tx[fn.ret.row].transaction_type = "deposit"

\* The local calendar day an instant lies in.
LocalDay(t) == (t + UtcOffsetSeconds * TicksPerSecond) \div (SecondsPerDay * TicksPerSecond)

\* C25: a period sum counts exactly the rows of its types created on a local
\* calendar day from start_date to end_date, the last second of end_date
\* included whatever its fraction.
PeriodSumCountsWholeDays ==
  (ReadDone /\ fn.op \in {"get_incoming_sum_for_period", "get_outgoing_sum_for_period"}
            /\ fn.ret.value.t = "sum") =>
    LET types == IF fn.op = "get_incoming_sum_for_period" THEN {"deposit", "transfer"}
                 ELSE {"withdrawal", "transfer", "payment"}
        days == {i \in RowsOf(tx, AccIds(fn.customer_id), types) :
                   /\ fn.args[1] <= LocalDay(tx[i].created_at)
                   /\ LocalDay(tx[i].created_at) <= fn.args[2]}
    IN fn.ret.value.total = SumAmounts(tx, days)

\* C26: for a customer without accounts every read tool returns the
\* no_accounts message and has sent no transaction query.
NoAccountsShortCircuits ==
  /\ (ReadDone /\ AccIds(fn.customer_id) = {}) =>
       /\ fn.out = ToolReturn(_t(fn.lang, "no_accounts", <<>>))
       /\ ~fn.ret.tx_queried
  /\ \A p \in Procs :
       (/\ pc[p] = "done" /\ call[p].tool = "get_balance"
        /\ call[p].customer_id \in CustomerIds /\ AccIds(call[p].customer_id) = {}) =>
         call[p].result = ToolReturn(_t(call[p].lang, "no_accounts", <<>>))

\* Witness of C26: the largest transaction was asked for a customer without
\* accounts while the table holds rows.
ReadForCustomerWithoutAccounts ==
  /\ ReadDone
  /\ fn.op = "get_largest_transaction"
  /\ AccIds(fn.customer_id) = {}
  /\ tx # <<>>

\* C27: respond adds the caller's id to a marker that has no customer_id and
\* the requested-or-default language to a marker that has no lang, before it
\* filters: get_balance and transfer_money, whose allow-lists hold both, are
\* invoked with them, and get_card_details, whose allow-list holds neither,
\* is invoked with its card_name alone.
InjectedBeforeFilter ==
  (fn.op = "respond" /\ pc["p1"] # "idle") =>
    LET rec == call["p1"]
        u == user["p1"]
        kwargs == fn.kwargs
    IN
    /\ (/\ fn.name \in {"get_balance", "transfer_money"}
        /\ fn.name = "transfer_money" => "to_name" \in DOMAIN kwargs) =>
         /\ (u # NoCustomer /\ "customer_id" \notin DOMAIN kwargs) =>
              rec.tool = fn.name /\ rec.customer_id = u
         /\ (u # NoCustomer \/ "customer_id" \in DOMAIN kwargs) =>
              /\ rec.tool = fn.name
              /\ rec.lang = IF "lang" \in DOMAIN kwargs THEN kwargs["lang"]
                            ELSE IF fn.language = "" THEN "ky" ELSE fn.language
    /\ (fn.name = "get_card_details" /\ "card_name" \in DOMAIN kwargs) =>
         /\ rec.tool = fn.name
         /\ rec.kwargs = ("card_name" :> kwargs["card_name"])
         /\ rec.result = ToolReturn(CardDetails(kwargs["card_name"]))

\* Witness of C27: a marker of get_card_details that names only the card was
\* dispatched for an authenticated user and answered with the card's details.
CardDetailsServedToUser ==
  /\ pc["p1"] = "done"
  /\ user["p1"] # NoCustomer
  /\ fn.op = "respond"
  /\ call["p1"].tool = "get_card_details"
  /\ DOMAIN fn.kwargs = {"card_name"}
  /\ call["p1"].result.kind = "text"

\* C29: the first marker of the response is extracted with its whole body,
\* and the call parsed from it has the marker's name and its value coerced, a
\* JSON array to the list.
MarkerIsExtractedWhole ==
  fn.op = "_extract_func_calls" =>
    /\ Len(fn.func_calls) >= 1
    /\ fn.func_calls[1] =
         "name=" \o fn.marker.name \o ", " \o fn.marker.key \o "=" \o fn.marker.value
    /\ fn.calls[1].ok
    /\ fn.calls[1].name = fn.marker.name
    /\ fn.calls[1].kwargs = (fn.marker.key :> Coercion(fn.marker.value))

\* C30: the description of a transfer gives the names back: the first of the
\* at most 3 recipients listed for the sender is the recipient's full name,
\* and the sender named for the recipient's last incoming transaction is the
\* sender's full name.
DescriptionRoundTrips ==
  fn.op = "description" =>
    /\ Len(fn.recipients.value.names) \in 1..3
    /\ fn.recipients.value.names[1] = fn.to_name
    /\ fn.incoming.msg.args[1] = fn.from_name

====
